---- MODULE Spec2Model ----
(***************************************************************************)
(* A model of joseTOV/eos.py: crust loading, the interpolated EOS table,   *)
(* the nuclear meta-model, its speed-of-sound extension and the stellar    *)
(* sequence builder.                                                       *)
(*                                                                         *)
(* Numbers.  The program computes in IEEE floating point; the model        *)
(* computes exactly, on records [k, n, d, en, ed]:                         *)
(*   k = "val"   the real (n/d) * 2^(en/ed), 0 <= en/ed < 1 (en = 0 for a  *)
(*               rational);                                                *)
(*   k = "log"   the real log2(n/d) + en/ed, n and d odd, n/d # 1;         *)
(*   k = "nan", "pinf", "ninf"   the IEEE special values;                  *)
(*   k = "irr"   a finite real the model does not represent.               *)
(* Logarithms and exponentials are taken to base 2; densities are counted  *)
(* in units of 1e-3 fm^-3.                                                 *)
(***************************************************************************)
EXTENDS Integers, Sequences, FiniteSets, TLC

VARIABLES fam, crust, pf, eos

vars == <<fam, crust, pf, eos>>

----------------------------------------------------------------------------
(* Exact arithmetic with the IEEE special values                           *)

Abs(i) == IF i < 0 THEN -i ELSE i

RECURSIVE Gcd(_, _)
Gcd(a, b) == IF b = 0 THEN a ELSE Gcd(b, a % b)

RECURSIVE IPow(_, _)
IPow(b, e) == IF e <= 0 THEN 1 ELSE b * IPow(b, e - 1)

\* how often 2 divides the positive integer i
RECURSIVE TwoVal(_)
TwoVal(i) == IF i % 2 = 1 THEN 0 ELSE 1 + TwoVal(i \div 2)

\* floor(a / b) for b > 0
Floor(a, b) == a \div b

\* x * y stays well inside the integers the model computes with
Small(x, y) == y = 0 \/ Abs(x) <= 1000000000 \div Abs(y)

\* the rational n/d (d # 0) in lowest terms
V(n, d) ==
    LET g == Gcd(Abs(n), Abs(d))
        s == IF d < 0 THEN -1 ELSE 1
    IN [k |-> "val", n |-> (s * n) \div g, d |-> (s * d) \div g, en |-> 0, ed |-> 1]

Z(i) == [k |-> "val", n |-> i, d |-> 1, en |-> 0, ed |-> 1]

NaN == [k |-> "nan", n |-> 0, d |-> 1, en |-> 0, ed |-> 1]

PInf == [k |-> "pinf", n |-> 0, d |-> 1, en |-> 0, ed |-> 1]

NInf == [k |-> "ninf", n |-> 0, d |-> 1, en |-> 0, ed |-> 1]

Irr == [k |-> "irr", n |-> 0, d |-> 1, en |-> 0, ed |-> 1]

IsFin(x) == x.k \in {"val", "log", "irr"}

IsRat(x) == x.k = "val" /\ x.en = 0

IsInf(x) == x.k \in {"pinf", "ninf"}

\* log2(rn/rd) + qn/qd for odd rn, rd > 0: a rational when rn/rd = 1
MkLog(rn, rd, qn, qd) ==
    LET g == Gcd(rn, rd)
        h == Gcd(Abs(qn), Abs(qd))
        s == IF qd < 0 THEN -1 ELSE 1
    IN IF rn = rd THEN [k |-> "val", n |-> (s * qn) \div h, d |-> (s * qd) \div h,
                        en |-> 0, ed |-> 1]
       ELSE [k |-> "log", n |-> rn \div g, d |-> rd \div g,
             en |-> (s * qn) \div h, ed |-> (s * qd) \div h]

\* (n/d) * 2^(qn/qd) for n, d > 0, qd > 0: the whole powers of two go into n/d
MkPow(n, d, qn, qd) ==
    LET j == Floor(qn, qd)
        fn == qn - j * qd
        g == Gcd(fn, qd)
        m == IF j >= 0 THEN n * IPow(2, j) ELSE n
        e == IF j >= 0 THEN d ELSE d * IPow(2, -j)
        c == Gcd(m, e)
    IN [k |-> "val", n |-> m \div c, d |-> e \div c, en |-> fn \div g, ed |-> qd \div g]

\* the sign of a number: 1, -1 or 0; 2 when it has none the model can tell
SignOf(x) ==
    CASE x.k = "pinf" -> 1
      [] x.k = "ninf" -> -1
      [] x.k = "val" -> IF x.n > 0 THEN 1 ELSE IF x.n < 0 THEN -1 ELSE 0
      [] x.k = "log" /\ x.ed = 1 ->
            \* log2(n/d) + en > 0 iff n * 2^en > d
            IF x.n * IPow(2, x.en) > x.d * IPow(2, -x.en) THEN 1 ELSE -1
      [] OTHER -> 2

\* a + b
Add(a, b) ==
    CASE a.k = "nan" \/ b.k = "nan" -> NaN
      [] IsInf(a) /\ IsInf(b) -> IF a.k = b.k THEN a ELSE NaN
      [] IsInf(a) -> a
      [] IsInf(b) -> b
      [] a.k = "irr" \/ b.k = "irr" -> Irr
      [] IsRat(a) /\ IsRat(b) ->
            IF Small(a.n, b.d) /\ Small(b.n, a.d) /\ Small(a.d, b.d)
            THEN V(a.n * b.d + b.n * a.d, a.d * b.d) ELSE Irr
      [] a.k = "log" /\ b.k = "log" ->
            IF Small(a.n, b.n) /\ Small(a.d, b.d)
            THEN MkLog(a.n * b.n, a.d * b.d, a.en * b.ed + b.en * a.ed, a.ed * b.ed)
            ELSE Irr
      [] a.k = "log" /\ IsRat(b) -> MkLog(a.n, a.d, a.en * b.d + b.n * a.ed, a.ed * b.d)
      [] IsRat(a) /\ b.k = "log" -> MkLog(b.n, b.d, b.en * a.d + a.n * b.ed, b.ed * a.d)
      [] a.k = "val" /\ b.k = "val" /\ a.en = b.en /\ a.ed = b.ed
            /\ Small(a.n, b.d) /\ Small(b.n, a.d) /\ Small(a.d, b.d) ->
            [V(a.n * b.d + b.n * a.d, a.d * b.d) EXCEPT !.en = a.en, !.ed = a.ed]
      [] OTHER -> Irr

\* a - b
Sub(a, b) ==
    CASE a.k = "nan" \/ b.k = "nan" -> NaN
      [] IsInf(a) /\ IsInf(b) -> IF a.k = b.k THEN NaN ELSE a
      [] IsInf(a) -> a
      [] b.k = "pinf" -> NInf
      [] b.k = "ninf" -> PInf
      [] a.k = "irr" \/ b.k = "irr" -> Irr
      [] a = b -> Z(0)
      [] IsRat(a) /\ IsRat(b) ->
            IF Small(a.n, b.d) /\ Small(b.n, a.d) /\ Small(a.d, b.d)
            THEN V(a.n * b.d - b.n * a.d, a.d * b.d) ELSE Irr
      [] a.k = "log" /\ b.k = "log" ->
            IF Small(a.n, b.d) /\ Small(a.d, b.n)
            THEN MkLog(a.n * b.d, a.d * b.n, a.en * b.ed - b.en * a.ed, a.ed * b.ed)
            ELSE Irr
      [] a.k = "log" /\ IsRat(b) -> MkLog(a.n, a.d, a.en * b.d - b.n * a.ed, a.ed * b.d)
      [] IsRat(a) /\ b.k = "log" -> MkLog(b.d, b.n, a.n * b.ed - b.en * a.d, b.ed * a.d)
      [] a.k = "val" /\ b.k = "val" /\ a.en = b.en /\ a.ed = b.ed
            /\ Small(a.n, b.d) /\ Small(b.n, a.d) /\ Small(a.d, b.d) ->
            [V(a.n * b.d - b.n * a.d, a.d * b.d) EXCEPT !.en = a.en, !.ed = a.ed]
      [] OTHER -> Irr

\* a * b
Mul(a, b) ==
    CASE a.k = "nan" \/ b.k = "nan" -> NaN
      [] IsInf(a) \/ IsInf(b) ->
            IF (a.k = "val" /\ a.n = 0) \/ (b.k = "val" /\ b.n = 0) THEN NaN
            ELSE IF SignOf(a) = 2 \/ SignOf(b) = 2 THEN Irr
            ELSE IF SignOf(a) = SignOf(b) THEN PInf ELSE NInf
      [] a.k = "val" /\ a.n = 0 -> a
      [] b.k = "val" /\ b.n = 0 -> b
      [] a.k = "irr" \/ b.k = "irr" -> Irr
      [] a = Z(1) -> b
      [] b = Z(1) -> a
      [] a.k = "val" /\ b.k = "val" /\ ~(Small(a.n, b.n) /\ Small(a.d, b.d)) -> Irr
      [] IsRat(a) /\ IsRat(b) -> V(a.n * b.n, a.d * b.d)
      [] a.k = "val" /\ b.k = "val" /\ (a.n < 0 \/ b.n < 0) -> Irr
      [] a.k = "val" /\ b.k = "val" ->
            MkPow(a.n * b.n, a.d * b.d, a.en * b.ed + b.en * a.ed, a.ed * b.ed)
      [] OTHER -> Irr

\* a / b: x/0 is +-inf, 0/0 is NaN
Div(a, b) ==
    CASE a.k = "nan" \/ b.k = "nan" -> NaN
      [] IsInf(a) /\ IsInf(b) -> NaN
      [] IsInf(a) -> IF SignOf(b) = 2 THEN Irr
                     ELSE IF SignOf(b) = 0 \/ SignOf(b) = 1 THEN a
                     ELSE IF a.k = "pinf" THEN NInf ELSE PInf
      [] IsInf(b) -> Z(0)
      [] b.k = "val" /\ b.n = 0 ->
            IF a.k = "val" /\ a.n = 0 THEN NaN
            ELSE IF SignOf(a) = 2 THEN Irr
            ELSE IF SignOf(a) = 1 THEN PInf ELSE NInf
      [] a.k = "val" /\ a.n = 0 -> a
      [] a.k = "irr" \/ b.k = "irr" -> Irr
      [] a = b -> Z(1)
      [] b = Z(1) -> a
      [] a.k = "val" /\ b.k = "val" /\ ~(Small(a.n, b.d) /\ Small(a.d, b.n)) -> Irr
      [] IsRat(a) /\ IsRat(b) -> V(a.n * b.d, a.d * b.n)
      [] a.k = "val" /\ b.k = "val" /\ (a.n < 0 \/ b.n < 0) -> Irr
      [] a.k = "val" /\ b.k = "val" ->
            MkPow(a.n * b.d, a.d * b.n, a.en * b.ed - b.en * a.ed, a.ed * b.ed)
      [] OTHER -> Irr

\* jnp.log: -inf at 0, NaN below 0
Log(x) ==
    CASE x.k = "nan" -> NaN
      [] x.k = "pinf" -> PInf
      [] x.k = "ninf" -> NaN
      [] x.k = "val" /\ x.n = 0 -> NInf
      [] x.k = "val" /\ x.n < 0 -> NaN
      [] x.k = "val" ->
            MkLog(x.n \div IPow(2, TwoVal(x.n)), x.d \div IPow(2, TwoVal(x.d)),
                  (TwoVal(x.n) - TwoVal(x.d)) * x.ed + x.en, x.ed)
      [] OTHER -> Irr

\* jnp.exp: 0 at -inf
Exp(x) ==
    CASE x.k = "nan" -> NaN
      [] x.k = "pinf" -> PInf
      [] x.k = "ninf" -> Z(0)
      [] x.k = "val" /\ x.en = 0 -> MkPow(1, 1, x.n, x.d)
      [] x.k = "log" -> MkPow(x.n, x.d, x.en, x.ed)
      [] OTHER -> Irr

\* a < b as IEEE compares them: false when either is NaN
Lt(a, b) ==
    CASE a.k = "nan" \/ b.k = "nan" -> FALSE
      [] a.k = "pinf" \/ b.k = "ninf" -> FALSE
      [] a.k = "ninf" \/ b.k = "pinf" -> TRUE
      [] a.k = "val" /\ b.k = "val" /\ a.en = b.en /\ a.ed = b.ed -> a.n * b.d < b.n * a.d
      [] a.k = "log" /\ b.k = "log" /\ a.ed = 1 /\ b.ed = 1 ->
            \* log2(r) + j < log2(s) + l iff r * 2^j < s * 2^l
            a.n * b.d * IPow(2, a.en - b.en) < b.n * a.d * IPow(2, b.en - a.en)
      [] a.k = "log" /\ IsRat(b) /\ a.ed = 1 /\ b.d = 1 ->
            a.n * IPow(2, a.en - b.n) < a.d * IPow(2, b.n - a.en)
      [] IsRat(a) /\ b.k = "log" /\ b.ed = 1 /\ a.d = 1 ->
            b.d * IPow(2, a.n - b.en) < b.n * IPow(2, b.en - a.n)
      [] OTHER -> FALSE

Eq(a, b) == a.k \in {"val", "log", "pinf", "ninf"} /\ a = b

Le(a, b) == Lt(a, b) \/ Eq(a, b)

Gt(a, b) == Lt(b, a)

\* jnp.clip(x, lo, hi) = minimum(maximum(x, lo), hi); NaN stays NaN
Clip(x, lo, hi) ==
    LET m == IF x.k = "nan" \/ lo.k = "nan" THEN NaN ELSE IF Lt(x, lo) THEN lo ELSE x
    IN IF m.k = "nan" \/ hi.k = "nan" THEN NaN ELSE IF Lt(hi, m) THEN hi ELSE m

\* x ** e for an integer e
RECURSIVE Power(_, _)
Power(x, e) ==
    IF e = 0 THEN Z(1)
    ELSE IF e < 0 THEN Div(Z(1), Power(x, -e))
    ELSE Mul(x, Power(x, e - 1))

----------------------------------------------------------------------------
(* Array helpers of jax.numpy                                              *)

\* jnp.diff
Diff(a) == [i \in 1..(Len(a) - 1) |-> Sub(a[i + 1], a[i])]

\* jnp.cumsum
RECURSIVE CumSum(_)
CumSum(a) ==
    IF Len(a) = 0 THEN <<>>
    ELSE IF Len(a) = 1 THEN a
    ELSE Append(CumSum(SubSeq(a, 1, Len(a) - 1)),
                Add(CumSum(SubSeq(a, 1, Len(a) - 1))[Len(a) - 1], a[Len(a)]))

\* jnp.searchsorted(xp, x, side='right') on an ascending xp: how many xp[j] <= x
SearchSortedRight(xp, x) ==
    IF x.k = "nan" THEN Len(xp) ELSE Cardinality({j \in 1..Len(xp) : Le(xp[j], x)})

\* jnp.clip(c, 1, len - 1), the index jnp.interp works with
InterpIndex(c, len) == IF c < 1 THEN 1 ELSE IF c > len - 1 THEN len - 1 ELSE c

\* delta / dx: exactly 0 at the left node and exactly 1 at the right one
InterpFrac(x, x0, x1) ==
    IF x.k \in {"val", "log"} /\ x = x0 THEN Z(0)
    ELSE IF x.k \in {"val", "log"} /\ x = x1 THEN Z(1)
    ELSE Div(Sub(x, x0), Sub(x1, x0))

\* fp[i-1] + (delta / dx) * df; f0 + 1 * (f1 - f0) is f1 in exact arithmetic
InterpValue(f0, f1, frac) ==
    IF IsFin(f0) /\ IsFin(f1) /\ frac = Z(1) THEN f1
    ELSE Add(f0, Mul(frac, Sub(f1, f0)))

\* the interpolant on the segment from (x0, f0) to (x1, f1)
InterpSegment(x, x0, x1, f0, f1) ==
    IF x0.k \in {"val", "log"} /\ x0 = x1 THEN f0
    ELSE InterpValue(f0, f1, InterpFrac(x, x0, x1))

InterpAt(x, xp, fp, i) == InterpSegment(x, xp[i], xp[i + 1], fp[i], fp[i + 1])

\* jnp.interp(x, xp, fp), Len(xp) >= 2: position i + 1 here is index i of the source
Interp(x, xp, fp) ==
    IF x.k = "irr" \/ \E j \in 1..Len(xp) : xp[j].k = "irr" THEN Irr
    ELSE IF Lt(xp[Len(xp)], x) THEN fp[Len(fp)]
    ELSE IF Lt(x, xp[1]) THEN fp[1]
    ELSE InterpAt(x, xp, fp, InterpIndex(SearchSortedRight(xp, x), Len(xp)))

\* jnp.logspace(log10(a), log10(b), num): the geometric grid from a to b
Logspace(a, b, num) ==
    [i \in 1..num |->
        IF i = 1 THEN a
        ELSE IF i = num THEN b
        ELSE Exp(Add(Log(a), Mul(V(i - 1, num - 1), Sub(Log(b), Log(a)))))]

\* jnp.linspace(a, b, num)
Linspace(a, b, num) ==
    [i \in 1..num |->
        IF i = 1 THEN a
        ELSE IF i = num THEN b
        ELSE Add(a, Mul(V(i - 1, num - 1), Sub(b, a)))]

----------------------------------------------------------------------------
(* utils: constants and helpers the source imports                         *)

\* utils.fm_inv3_to_geometric, for one density unit of the model
fm_inv3_to_geometric == 2

\* utils.MeV_fm_inv3_to_geometric, for one pressure unit of the model
MeV_fm_inv3_to_geometric == 4

\* utils.solar_mass_in_meter
solar_mass_in_meter == 1477

\* utils.cumtrapz(y, x): the cumulative trapezoidal integral, 0 at the first sample
cumtrapz(y, x) ==
    LET dx == Diff(x)
        inc == [i \in 1..(Len(y) - 1) |-> Mul(dx[i], Div(Add(y[i + 1], y[i]), Z(2)))]
    IN <<Z(0)>> \o CumSum(inc)

\* utils.interp_in_logspace(x, xs, ys): log-log interpolation
interp_in_logspace(x, xs, ys) ==
    Exp(Interp(Log(x), [i \in 1..Len(xs) |-> Log(xs[i])], [i \in 1..Len(ys) |-> Log(ys[i])]))

\* the first index (0-based) at which the mass stops increasing; Len(m) if none
RECURSIVE FirstStop(_, _)
FirstStop(m, i) ==
    IF i > Len(m) - 1 THEN Len(m)
    ELSE IF Gt(m[i + 1], m[i]) THEN FirstStop(m, i + 1)
    ELSE i

\* utils.limit_by_MTOV(m, r, l): everything from the first index where the mass
\* stops increasing onward is discarded
limit_by_MTOV(m, r, l) ==
    LET c == FirstStop(m, 1)
    IN <<SubSeq(m, 1, c), SubSeq(r, 1, c), SubSeq(l, 1, c)>>

----------------------------------------------------------------------------
(* construct_family                                                        *)

\* the largest ndat the model builds a sequence for
MaxNdat == 3

\* the solver's masses are 1000 m, ..., MaxMass * 1000 m, or NaN (a failed solve)
MaxMass == 3

\* 0.16 fm^-3, the saturation density construct_family assumes
NSatFamily == 160

\* what tov.tov_solver may return for one central pressure: (mass, radius, k2) in
\* geometric units
SolverResults ==
    {<<m, r, k2>> : m \in {Z(1000 * i) : i \in 1..MaxMass} \cup {NaN},
                    r \in {Z(10000), Z(12000)}, k2 \in {V(1, 10)}}

\* the EOS tuples (ns, ps, hs, es, dloge_dlogps) handed to construct_family
FamilyEOS ==
    {[ns |-> <<Z(80 * fm_inv3_to_geometric), Z(1280 * fm_inv3_to_geometric)>>,
      ps |-> <<Z(1), Z(16)>>, hs |-> <<Z(0), V(1, 2)>>, es |-> <<Z(8), Z(64)>>,
      dloge_dlogps |-> <<V(3, 4), V(3, 4)>>]}

\* lines 468-477: the central pressure grid
CentralPressures(e, ndat, min_nsat) ==
    LET pc_min == interp_in_logspace(Z(min_nsat * NSatFamily * fm_inv3_to_geometric), e.ns, e.ps)
        pc_max == e.ps[Len(e.ps)]
    IN Logspace(pc_min, pc_max, ndat)

\* lines 492-507: from the solver's ms, rs, ks to the returned tuple
FamilyResultNoLimit(pcs, ms, rs, ks) ==
    LET cs == [i \in 1..Len(ms) |-> Div(ms[i], rs[i])]
        ms1 == [i \in 1..Len(ms) |-> Div(ms[i], Z(solar_mass_in_meter))]
        rs1 == [i \in 1..Len(rs) |-> Div(rs[i], Z(1000))]
        lambdas == [i \in 1..Len(ks) |-> Mul(Mul(V(2, 3), ks[i]), Power(cs[i], -5))]
    IN [logpc |-> [i \in 1..Len(pcs) |-> Log(pcs[i])], m |-> ms1, r |-> rs1, l |-> lambdas]

FamilyResult(pcs, ms, rs, ks) ==
    LET cs == [i \in 1..Len(ms) |-> Div(ms[i], rs[i])]
        ms1 == [i \in 1..Len(ms) |-> Div(ms[i], Z(solar_mass_in_meter))]
        rs1 == [i \in 1..Len(rs) |-> Div(rs[i], Z(1000))]
        lambdas == [i \in 1..Len(ks) |-> Mul(Mul(V(2, 3), ks[i]), Power(cs[i], -5))]
        lim == limit_by_MTOV(ms1, rs1, lambdas)
    IN [logpc |-> [i \in 1..Len(pcs) |-> Log(pcs[i])], m |-> lim[1], r |-> lim[2], l |-> lim[3]]

NoFamily == [logpc |-> <<>>, m |-> <<>>, r |-> <<>>, l |-> <<>>]

\* nothing has been called yet
IdleFam == [pc |-> "idle", pcs |-> <<>>, ms |-> <<>>, rs |-> <<>>, ks |-> <<>>, out |-> NoFamily]
IdleCrust == [pc |-> "idle"]
IdlePf == [pc |-> "idle"]
IdleEos == [pc |-> "idle"]

FamInit == fam = IdleFam /\ crust = IdleCrust /\ pf = IdlePf /\ eos = IdleEos

\* construct_family is called: the grid of central pressures is built
FamStart ==
    /\ fam.pc = "idle"
    /\ \E e \in FamilyEOS, ndat \in 2..MaxNdat, min_nsat \in {1, 2, 4} :
          fam' = [fam EXCEPT !.pc = "solving", !.pcs = CentralPressures(e, ndat, min_nsat)]
    /\ UNCHANGED <<crust, pf, eos>>

\* the vectorized tov_solver answers for the next central pressure
FamSolve ==
    /\ fam.pc = "solving"
    /\ Len(fam.ms) < Len(fam.pcs)
    /\ \E s \in SolverResults :
          fam' = [fam EXCEPT !.ms = Append(@, s[1]), !.rs = Append(@, s[2]),
                             !.ks = Append(@, s[3])]
    /\ UNCHANGED <<crust, pf, eos>>

\* every solve has answered: post-processing, truncation, return
FamReturn ==
    /\ fam.pc = "solving"
    /\ Len(fam.ms) = Len(fam.pcs)
    /\ fam' = [fam EXCEPT !.pc = "done", !.out = FamilyResult(fam.pcs, fam.ms, fam.rs, fam.ks)]
    /\ UNCHANGED <<crust, pf, eos>>

FamNext == FamStart \/ FamSolve \/ FamReturn

SpecFamily == FamInit /\ [][FamNext]_vars

\* the solver's masses in solar masses, before any truncation
FamAllMasses == [i \in 1..Len(fam.ms) |-> Div(fam.ms[i], Z(solar_mass_in_meter))]

C3_EqualLength ==
    fam.pc = "done" =>
        /\ Len(fam.out.logpc) = Len(fam.out.m)
        /\ Len(fam.out.m) = Len(fam.out.r)
        /\ Len(fam.out.r) = Len(fam.out.l)

----------------------------------------------------------------------------
(* load_crust                                                              *)

\* File names are the sequences of their "."-separated parts.
\* the files that may lie in CRUST_DIR
CatalogFiles == {<<"BPS", "npz">>, <<"DH", "npz">>, <<"SLy", "v2", "npz">>, <<"README", "md">>}

\* the files that may lie in the working directory
OtherFiles == {<<"mycrust", "npz">>, <<"BPS", "npz">>}

\* the names load_crust is called with
CrustNames ==
    {<<"BPS">>, <<"DH">>, <<"SLy">>, <<"nope">>, <<"SLy", "v2">>, <<"npz">>,
     <<"mycrust", "npz">>, <<"BPS", "npz">>, <<"missing", "npz">>}

NoTable == [dir |-> "none", file |-> <<>>]

\* str.endswith(".npz")
EndsWithNpz(f) == Len(f) >= 2 /\ f[Len(f)] = "npz"

\* line 28: f.split(".")[0] of every .npz file of CRUST_DIR
available_crust_names(catalog) == {f[1] : f \in {g \in catalog : EndsWithNpz(g)}}

\* lines 28-40 without the catalog test of lines 32-35
load_crust_unchecked(name, catalog, others) ==
    LET avail == available_crust_names(catalog)
        bare == ~EndsWithNpz(name)
        path == IF bare THEN [dir |-> "CRUST_DIR", file |-> name \o <<"npz">>]
                ELSE [dir |-> "cwd", file |-> name]
        exists == IF path.dir = "CRUST_DIR" THEN path.file \in catalog ELSE path.file \in others
    IN IF ~exists
       THEN [kind |-> "FileNotFoundError", has_list |-> FALSE, listed |-> {}, table |-> NoTable]
       ELSE [kind |-> "ok", has_list |-> FALSE, listed |-> {}, table |-> path]

\* lines 28-40
load_crust(name, catalog, others) ==
    LET avail == available_crust_names(catalog)
        bare == ~EndsWithNpz(name)
        known == Len(name) = 1 /\ name[1] \in avail
        path == IF bare THEN [dir |-> "CRUST_DIR", file |-> name \o <<"npz">>]
                ELSE [dir |-> "cwd", file |-> name]
        exists == IF path.dir = "CRUST_DIR" THEN path.file \in catalog ELSE path.file \in others
    IN IF bare /\ ~known
       THEN [kind |-> "ValueError", has_list |-> TRUE, listed |-> avail, table |-> NoTable]
       ELSE IF ~exists
       THEN [kind |-> "FileNotFoundError", has_list |-> FALSE, listed |-> {}, table |-> NoTable]
       ELSE [kind |-> "ok", has_list |-> FALSE, listed |-> {}, table |-> path]

CrustInit == fam = IdleFam /\ crust = IdleCrust /\ pf = IdlePf /\ eos = IdleEos

\* the files on disk when the program runs
CrustInstall ==
    /\ crust.pc = "idle"
    /\ \E catalog \in SUBSET CatalogFiles, others \in SUBSET OtherFiles :
          crust' = [pc |-> "installed", catalog |-> catalog, others |-> others]
    /\ UNCHANGED <<fam, pf, eos>>

\* load_crust(name) runs to its return or its error
CrustLoad ==
    /\ crust.pc = "installed"
    /\ \E name \in CrustNames :
          crust' = [pc |-> "done", catalog |-> crust.catalog, others |-> crust.others,
                    name |-> name, res |-> load_crust(name, crust.catalog, crust.others)]
    /\ UNCHANGED <<fam, pf, eos>>

CrustNext == CrustInstall \/ CrustLoad

SpecCrust == CrustInit /\ [][CrustNext]_vars

\* the file a call would read exists
CrustResolves ==
    IF EndsWithNpz(crust.name) THEN crust.name \in crust.others
    ELSE (crust.name \o <<"npz">>) \in crust.catalog

\* C6 (as stated): a call whose name or path does not resolve to an existing crust
\* table fails with an error that lists the available crust names, and returns no
\* table.
C6_UnresolvedListsNames ==
    (crust.pc = "done" /\ ~CrustResolves) =>
        /\ crust.res.kind # "ok"
        /\ crust.res.table = NoTable
        /\ crust.res.has_list
        /\ crust.res.listed = available_crust_names(crust.catalog)

\* C6 (amended): a bare name that is not among the available names fails with a
\* ValueError listing them; a path ending in .npz that does not exist fails with
\* the loader's file-not-found error, which lists nothing; no table is returned in
\* either case.
C6_BareNameListsNames ==
    crust.pc = "done" =>
        /\ (~EndsWithNpz(crust.name) /\ ~(Len(crust.name) = 1 /\ crust.name[1] \in available_crust_names(crust.catalog)))
              => /\ crust.res.kind = "ValueError"
                 /\ crust.res.has_list
                 /\ crust.res.listed = available_crust_names(crust.catalog)
                 /\ crust.res.table = NoTable
        /\ (EndsWithNpz(crust.name) /\ crust.name \notin crust.others)
              => /\ crust.res.kind = "FileNotFoundError"
                 /\ ~crust.res.has_list
                 /\ crust.res.table = NoTable

\* an unknown bare name met a catalog of two crusts and the error lists both
C6_Witness ==
    /\ crust.pc = "done"
    /\ crust.name = <<"nope">>
    /\ crust.res.kind = "ValueError"
    /\ crust.res.listed = {"BPS", "DH"}

----------------------------------------------------------------------------
(* Interpolate_EOS_model                                                   *)

\* A table is a sequence of rows [n, p, e]; Col picks one column.
ColN(rows) == [i \in 1..Len(rows) |-> rows[i].n]
ColP(rows) == [i \in 1..Len(rows) |-> rows[i].p]
ColE(rows) == [i \in 1..Len(rows) |-> rows[i].e]

\* a[0] or a.at[0].get(); on an empty array the read is out of bounds and, where
\* it does not raise, yields the fill value NaN
FirstOf(a) == IF Len(a) = 0 THEN NaN ELSE a[1]

\* jnp.concatenate((jnp.array([a.at[0].get()]), a)): the first element repeated
FirstRepeated(a) == <<FirstOf(a)>> \o a

\* a[-1], likewise
LastOf(a) == IF Len(a) = 0 THEN NaN ELSE a[Len(a)]

\* a scaled by the conversion factor c
Scaled(a, c) == [i \in 1..Len(a) |-> Mul(a[i], Z(c))]

\* jnp.log of an array
LogOf(a) == [i \in 1..Len(a) |-> Log(a[i])]

\* line 69: p / (e + p)
POverEPlusP(p, e) == [i \in 1..Len(p) |-> Div(p[i], Add(e[i], p[i]))]

\* lines 74-84: diff(loge) / diff(logp), its first element repeated
DlogeDlogp(dl, dp) == FirstRepeated([i \in 1..Len(dl) |-> Div(dl[i], dp[i])])

\* lines 67-85
InterpolateLogs(n, p, e, logp, loge, h) ==
    [n |-> n, p |-> p, e |-> e, logn |-> LogOf(n), logp |-> logp, h |-> h, loge |-> loge,
     logh |-> LogOf(h), dloge_dlogp |-> DlogeDlogp(Diff(loge), Diff(logp))]

InterpolateDerived(n, p, e, logp) ==
    InterpolateLogs(n, p, e, logp, LogOf(e), cumtrapz(POverEPlusP(p, e), logp))

InterpolateOf(n, p, e) == InterpolateDerived(n, p, e, LogOf(p))

\* lines 62-85: the attributes Interpolate_EOS_model.__init__ stores
InterpolateInit(rows) ==
    InterpolateOf(Scaled(ColN(rows), fm_inv3_to_geometric),
                  Scaled(ColP(rows), MeV_fm_inv3_to_geometric),
                  Scaled(ColE(rows), MeV_fm_inv3_to_geometric))

\* an Interpolate_EOS_model that was never initialised
NoInterpolate ==
    [n |-> <<>>, p |-> <<>>, e |-> <<>>, logn |-> <<>>, logp |-> <<>>, h |-> <<>>,
     loge |-> <<>>, logh |-> <<>>, dloge_dlogp |-> <<>>]

\* lines 91-93
pressure_from_pseudo_enthalpy(it, h) == Exp(Interp(Log(h), it.logh, it.logp))

\* lines 98-100
pseudo_enthalpy_from_pressure(it, p) == Exp(Interp(Log(p), it.logp, it.logh))

\* lines 102-104
pressure_from_number_density(it, n) == Exp(Interp(n, it.n, it.logp))

----------------------------------------------------------------------------
(* MetaModel_EOS_model: the energy functional                              *)

\* utils.m_n and utils.m_p, in MeV
m_n == 940
m_p == 938

RECURSIVE Factorial(_)
Factorial(i) == IF i <= 1 THEN 1 ELSE i * Factorial(i - 1)

\* jnp.polyval(c[::-1], x) = c[0] + c[1] x + c[2] x^2 + ...
RECURSIVE Polyval(_, _)
Polyval(c, x) == IF Len(c) = 0 THEN Z(0) ELSE Add(c[1], Mul(x, Polyval(Tail(c), x)))

\* the coefficients of the derivative of the polynomial c
PolyDeriv(c) == [i \in 1..(Len(c) - 1) |-> Mul(Z(i), c[i + 1])]

\* line 167: jnp.insert(coefficient_sat, 1, 0.0), on a non-empty array
InsertZero(c) == <<c[1], Z(0)>> \o Tail(c)

\* lines 170-175: c / factorial(arange(len(c)))
OverFactorial(c) == [i \in 1..Len(c) |-> Div(c[i], Z(Factorial(i - 1)))]

\* lines 217-223: x = (n - nsat) / (3 nsat)
XofN(m, n) == Div(Sub(n, m.nsat), Mul(Z(3), m.nsat))

esym(m, n) == Polyval(m.coefficient_sym, XofN(m, n))

esat(m, n) == Polyval(m.coefficient_sat, XofN(m, n))

\* lines 225-240 with fix_proton_fraction = True, the only mode modelled here
proton_fraction(m, n) == m.fix_proton_fraction_val

\* delta ** 2 for delta = 1 - 2 x_p
DeltaSquared(x_p) == Power(Sub(Z(1), Mul(Z(2), x_p)), 2)

\* lines 291-292
static_part(x_p) == Add(Mul(x_p, Z(m_p)), Mul(Sub(Z(1), x_p), Z(m_n)))

\* lines 288-294
energy_per_particle_nuclear_unit(m, n) ==
    Add(Add(esat(m, n), Mul(esym(m, n), DeltaSquared(proton_fraction(m, n)))),
        static_part(proton_fraction(m, n)))

\* lines 296-299, at one density
energy_density_from_number_density_nuclear_unit(m, n) ==
    Mul(n, energy_per_particle_nuclear_unit(m, n))

\* dE/dx at a fixed proton fraction: esat'(x) + esym'(x) delta^2
dEdx(m, x, delta2) ==
    Add(Polyval(PolyDeriv(m.coefficient_sat), x),
        Mul(Polyval(PolyDeriv(m.coefficient_sym), x), delta2))

\* lines 301-303, at one density: n * n * dE/dn, the derivative jacfwd takes being
\* dE/dx / (3 nsat)
pressure_from_number_density_nuclear_unit(m, n) ==
    Mul(Mul(n, n),
        Div(dEdx(m, XofN(m, n), DeltaSquared(proton_fraction(m, n))), Mul(Z(3), m.nsat)))

\* line 319-320: the clipped ratio of the differences
ClippedRatio(dp, de, cs2_min) == [i \in 1..Len(dp) |-> Clip(Div(dp[i], de[i]), cs2_min, Z(1))]

\* lines 305-331: the clipped finite-difference speed of sound on the densities n
cs2_from_number_density_nuclear_unit(m, n, cs2_min) ==
    FirstRepeated(ClippedRatio(
        Diff([i \in 1..Len(n) |-> pressure_from_number_density_nuclear_unit(m, n[i])]),
        Diff([i \in 1..Len(n) |-> energy_density_from_number_density_nuclear_unit(m, n[i])]),
        cs2_min))

----------------------------------------------------------------------------
(* MetaModel_EOS_model.__init__                                            *)

\* the crust files of CRUST_DIR when a model is constructed
EosCatalog == {<<"BPS", "npz">>, <<"DH", "npz">>}

\* jnp.load(name): the rows (n, p, e) of a crust file
CrustData(path) ==
    IF path.file = <<"BPS", "npz">>
    THEN <<[n |-> Z(20), p |-> V(125, 8), e |-> Z(18800)],
           [n |-> Z(40), p |-> V(125, 2), e |-> Z(37700)],
           [n |-> Z(80), p |-> Z(250), e |-> Z(75500)]>>
    ELSE <<[n |-> Z(20), p |-> V(125, 8), e |-> Z(18800)],
           [n |-> Z(40), p |-> V(125, 2), e |-> Z(37700)],
           [n |-> Z(90), p |-> Z(2000), e |-> Z(85000)]>>

\* Python's max(a, b): b only when b > a
PyMax(a, b) == IF Gt(b, a) THEN b ELSE a

\* utils.cubic_spline(xq, xs, ys): the interpolating spline through (xs, ys) takes
\* the value ys[j] at a node xs[j]; between nodes the model does not compute it
cubic_spline(xq, xs, ys) ==
    [i \in 1..Len(xq) |->
        IF \E j \in 1..Len(xs) : Eq(xs[j], xq[i])
        THEN ys[CHOOSE j \in 1..Len(xs) : Eq(xs[j], xq[i])]
        ELSE Irr]

\* the attributes coefficient_sat, coefficient_sym, nsat, fix_proton_fraction_val
NoModel ==
    [nsat |-> Z(0), coefficient_sat |-> <<>>, coefficient_sym |-> <<>>,
     fix_proton_fraction_val |-> Z(0)]

\* a construction that raised err
MetaModelFailed(err, loaded) ==
    [ok |-> FALSE, err |-> err, loaded |-> loaded, m |-> NoModel, crust |-> <<>>,
     grid |-> <<>>, tab |-> <<>>, it |-> NoInterpolate, cs2 |-> <<>>]

\* lines 157-164: the crust rows kept, none when use_empty_crust
CrustRows(a, lc) ==
    IF a.use_empty_crust \/ lc.kind # "ok" THEN <<>>
    ELSE SelectSeq(CrustData(lc.table), LAMBDA r : Le(r.n, a.max_n_crust))

\* lines 151-154, 167-175: the attributes the functional reads
ModelOf(a) ==
    [nsat |-> a.nsat,
     coefficient_sat |-> OverFactorial(InsertZero(a.coefficient_sat)),
     coefficient_sym |-> OverFactorial(a.coefficient_sym),
     fix_proton_fraction_val |-> a.fix_proton_fraction_val]

\* line 178
NminOf(a, crustT) == PyMax(a.nmin, Add(LastOf(ColN(crustT)), Z(1)))

\* lines 181-183: the meta-model rows on the density grid ns_mm
GridRows(m, ns_mm) ==
    [i \in 1..Len(ns_mm) |->
        [n |-> ns_mm[i],
         p |-> pressure_from_number_density_nuclear_unit(m, ns_mm[i]),
         e |-> energy_density_from_number_density_nuclear_unit(m, ns_mm[i])]]

\* lines 186-189 with the comparison of the energy densities alone
MaskRowsEnergyOnly(grid, p_last, e_last) ==
    SelectSeq(grid, LAMBDA r : Gt(r.e, e_last))

\* lines 186-189: the rows above the last crust pressure and energy density
MaskRows(grid, p_last, e_last) ==
    SelectSeq(grid, LAMBDA r : Gt(r.p, p_last) /\ Gt(r.e, e_last))

\* lines 198-200: the rows of the spline through tmp on ns_spline
SplineRows(ns_spline, tmp_n, tmp_p, tmp_e) ==
    [i \in 1..Len(ns_spline) |->
        [n |-> ns_spline[i],
         p |-> cubic_spline(ns_spline, tmp_n, tmp_p)[i],
         e |-> cubic_spline(ns_spline, tmp_n, tmp_e)[i]]]

\* lines 192-210: the table handed to Interpolate_EOS_model.__init__
TableOf(a, crustT, mmT, nmin) ==
    IF a.use_spline
    THEN crustT \o SplineRows(Linspace(a.max_n_crust, nmin, a.ndat_spline),
                              ColN(crustT \o mmT), ColP(crustT \o mmT), ColE(crustT \o mmT))
                \o mmT
    ELSE crustT \o mmT

\* lines 212-215, and what the constructed object holds.  oob is what an index read
\* on an empty array does: it raises IndexError or it yields the fill value.
MetaModelDone(a, oob, m, crustT, grid, tab) ==
    IF Len(crustT) = 0 /\ oob = "IndexError"
    THEN MetaModelFailed("IndexError", ~a.use_empty_crust)
    ELSE IF Len(tab) < 2 /\ oob = "IndexError"
    THEN MetaModelFailed("IndexError", ~a.use_empty_crust)
    ELSE [ok |-> TRUE, err |-> "none", loaded |-> ~a.use_empty_crust, m |-> m,
          crust |-> crustT, grid |-> grid, tab |-> tab, it |-> InterpolateInit(tab),
          cs2 |-> cs2_from_number_density_nuclear_unit(m, ColN(tab), V(1, 1000))]

\* lines 177-210, from the crust rows on
MetaModelTable(a, oob, m, crustT, grid) ==
    MetaModelDone(a, oob, m, crustT, grid,
                  TableOf(a, crustT, MaskRows(grid, LastOf(ColP(crustT)), LastOf(ColE(crustT))),
                          NminOf(a, crustT)))

\* lines 157-183, from the result of load_crust on
MetaModelFrom(a, oob, m, crustT) ==
    MetaModelTable(a, oob, m, crustT,
                   GridRows(m, Logspace(NminOf(a, crustT), a.nmax, a.ndat)))

\* lines 151-215
MetaModelInit(a, oob) ==
    IF ~a.use_empty_crust /\ load_crust(a.crust, EosCatalog, {}).kind # "ok"
    THEN MetaModelFailed(load_crust(a.crust, EosCatalog, {}).kind, FALSE)
    ELSE MetaModelFrom(a, oob, ModelOf(a), CrustRows(a, load_crust(a.crust, EosCatalog, {})))

----------------------------------------------------------------------------
(* MetaModel_with_CSE_EOS_model                                            *)

\* jnp.exp where the model needs the natural exponential: only e^0 = 1 and the
\* special values are represented
ExpE(x) ==
    CASE x.k = "nan" -> NaN
      [] x.k = "pinf" -> PInf
      [] x.k = "ninf" -> Z(0)
      [] x.k = "val" /\ x.n = 0 -> Z(1)
      [] OTHER -> Irr

NoBreak ==
    [set |-> FALSE, p_break |-> Z(0), e_break |-> Z(0), mu_break |-> Z(0), cs2_break |-> Z(0)]

\* what is left of a construction that raised err
CSEFailed(err, brk) ==
    [ok |-> FALSE, err |-> err, brk |-> brk, ngrids |-> <<>>, cs2grids |-> <<>>,
     ext |-> <<>>, tab |-> <<>>, it |-> NoInterpolate]

\* no MetaModel_with_CSE_EOS_model is being constructed
NoCSE == CSEFailed("none", NoBreak)

\* lines 384-415: the break point
CSEBreakOf(p_break, e_break, nbreak, cs2_break) ==
    [set |-> TRUE, p_break |-> p_break, e_break |-> e_break,
     mu_break |-> Div(Add(p_break, e_break), nbreak), cs2_break |-> cs2_break]

CSEBreak(mm, c) ==
    CSEBreakOf(pressure_from_number_density_nuclear_unit(mm.m, c.nbreak),
               energy_density_from_number_density_nuclear_unit(mm.m, c.nbreak),
               c.nbreak,
               Div(LastOf(Diff(mm.it.p)), LastOf(Diff(mm.it.e))))

\* line 421: cs2_function on the densities ns
cs2_function(ns, ngrids, cs2grids) == [i \in 1..Len(ns) |-> Interp(ns[i], ngrids, cs2grids)]

\* line 425
CSEMus(mu_break, ns, cs2n) ==
    [i \in 1..Len(ns) |->
        Mul(mu_break, ExpE(cumtrapz([k \in 1..Len(ns) |-> Div(cs2n[k], ns[k])], ns)[i]))]

\* lines 426-427
CSERows(brk, ns, cs2n, mus) ==
    [i \in 1..Len(ns) |->
        [n |-> ns[i],
         p |-> Add(brk.p_break, cumtrapz([k \in 1..Len(ns) |-> Mul(cs2n[k], mus[k])], ns)[i]),
         e |-> Add(brk.e_break, cumtrapz(mus, ns)[i])]]

\* lines 424-427: the extension rows
CSEExt(brk, ns, cs2n) == CSERows(brk, ns, cs2n, CSEMus(brk.mu_break, ns, cs2n))

\* lines 431-433: the metamodel's table back in nuclear units
LowRows(it) ==
    [i \in 1..Len(it.n) |->
        [n |-> Div(it.n[i], Z(fm_inv3_to_geometric)),
         p |-> Div(it.p[i], Z(MeV_fm_inv3_to_geometric)),
         e |-> Div(it.e[i], Z(MeV_fm_inv3_to_geometric))]]

\* lines 431-435
CSEDone(brk, ngrids, cs2grids, ext, tab) ==
    [ok |-> TRUE, err |-> "none", brk |-> brk, ngrids |-> ngrids, cs2grids |-> cs2grids,
     ext |-> ext, tab |-> tab, it |-> InterpolateInit(tab)]

\* lines 419-435
CSEGrids(low, c, brk, ngrids, cs2grids, ext) ==
    CSEDone(brk, ngrids, cs2grids, ext, low \o ext)

CSEExtend(low, c, brk, ngrids, cs2grids) ==
    \* jnp.interp refuses an xp and an fp of different lengths
    IF Len(ngrids) # Len(cs2grids) THEN CSEFailed("ValueError", brk)
    ELSE CSEGrids(low, c, brk, ngrids, cs2grids,
                  CSEExt(brk, Logspace(c.nbreak, c.nmax, c.ndat_CSE),
                         cs2_function(Logspace(c.nbreak, c.nmax, c.ndat_CSE), ngrids, cs2grids)))

\* lines 384-435, from the break point on
CSEFromBreak(mm, c, brk) ==
    CSEExtend(LowRows(mm.it), c, brk, <<c.nbreak>> \o c.ngrids, <<brk.cs2_break>> \o c.cs2grids)

\* lines 382-435 without the assert of line 382
CSEAfterMetaModelNoAssert(c, mm) ==
    IF ~mm.ok THEN [mm |-> mm, x |-> CSEFailed(mm.err, NoBreak)]
    ELSE [mm |-> mm, x |-> CSEFromBreak(mm, c, CSEBreak(mm, c))]

\* lines 382-435, mm being self.metamodel
CSEAfterMetaModel(c, mm) ==
    IF ~mm.ok THEN [mm |-> mm, x |-> CSEFailed(mm.err, NoBreak)]
    ELSE IF Len(c.ngrids) # Len(c.cs2grids)
    THEN [mm |-> mm, x |-> CSEFailed("AssertionError", NoBreak)]
    ELSE [mm |-> mm, x |-> CSEFromBreak(mm, c, CSEBreak(mm, c))]

\* lines 372-435
CSEInit(a, c, oob) == CSEAfterMetaModel(c, MetaModelInit([a EXCEPT !.nmax = c.nbreak], oob))

\* lines 437-450
CSE_cs2_from_number_density_nuclear_unit(mm, x, c, n, cs2_min) ==
    LET low == cs2_from_number_density_nuclear_unit(mm.m, n, V(1, 1000))
    IN [i \in 1..Len(n) |->
           Clip(IF Lt(n[i], c.nbreak) THEN low[i] ELSE Interp(n[i], x.ngrids, x.cs2grids),
                cs2_min, Z(1))]

----------------------------------------------------------------------------
(* Constructing and querying an EOS                                        *)

\* what an index read on an empty array does
OobOutcomes == {"IndexError", "nan"}

\* (nmin, ndat) pairs: the density grid stays among the numbers the model represents
GridChoices == {[nmin |-> Z(100), ndat |-> 2], [nmin |-> Z(100), ndat |-> 3],
                [nmin |-> Z(50), ndat |-> 2]}

\* the arguments MetaModel_EOS_model is constructed with
MetaModelArgs ==
    {[coefficient_sat |-> cs, coefficient_sym |-> <<Z(32), Z(48)>>, nsat |-> Z(160),
      nmin |-> g.nmin, nmax |-> Z(400), ndat |-> g.ndat, fix_proton_fraction_val |-> Z(0),
      crust |-> cr, max_n_crust |-> mx, use_empty_crust |-> ue, use_spline |-> us,
      ndat_spline |-> nd] :
        cs \in {<<Z(-16)>>, <<Z(-16), Z(240)>>}, g \in GridChoices,
        cr \in {<<"BPS">>, <<"DH">>, <<"nope">>}, mx \in {Z(80), Z(90)},
        ue \in BOOLEAN, us \in BOOLEAN, nd \in {2, 3}}

\* the metamodel arguments MetaModel_with_CSE_EOS_model is constructed with
CSEMetaModelArgs ==
    {a \in MetaModelArgs : /\ a.nmin = Z(100)
                           /\ a.crust \in {<<"BPS">>, <<"nope">>}
                           /\ a.max_n_crust = Z(80)
                           /\ a.ndat_spline = 2}

\* its own arguments
CSEArgs ==
    {[nbreak |-> Z(400), nmax |-> Z(1600), ngrids |-> ng, cs2grids |-> cg, ndat_CSE |-> nd] :
        ng \in {<<Z(800)>>, <<Z(800), Z(1600)>>},
        cg \in {<<V(1, 2)>>, <<V(1, 2), V(1, 3)>>, <<Z(2), V(1, 2)>>},
        nd \in {2, 3}}

NoCSEArgs == [nbreak |-> Z(0), nmax |-> Z(0), ngrids |-> <<>>, cs2grids |-> <<>>, ndat_CSE |-> 0]

NoQuery == [kind |-> "none", x |-> <<>>, cs2_min |-> Z(0), row |-> 0, out |-> <<>>]

\* the densities (geometric units) pressure_from_number_density is asked for
QueryDensities == {Z(100 * fm_inv3_to_geometric), Z(200 * fm_inv3_to_geometric),
                   Z(300 * fm_inv3_to_geometric)}

\* the density arrays (fm^-3 units of the model) cs2 is asked for
Cs2Queries == {<<Z(100), Z(200)>>, <<Z(200), Z(200), Z(800)>>, <<Z(300), Z(500), Z(1600)>>}

\* the cs2_min values cs2 is asked with
Cs2Mins == {V(1, 1000), V(1, 2), Z(2)}

\* the program's state once a constructor has returned or raised
EosOf(kind, a, c, mm, x) ==
    [pc |-> IF (kind = "MM" /\ mm.ok) \/ (kind = "CSE" /\ x.ok) THEN "built" ELSE "failed",
     kind |-> kind, args |-> a, cse |-> c, mm |-> mm, x |-> x, q |-> NoQuery]

EosOfCSE(a, c, r) == EosOf("CSE", a, c, r.mm, r.x)

EosInit == fam = IdleFam /\ crust = IdleCrust /\ pf = IdlePf /\ eos = IdleEos

\* MetaModel_EOS_model(...) runs to its return or its error
EosNewMetaModel ==
    /\ eos.pc = "idle"
    /\ \E a \in MetaModelArgs, oob \in OobOutcomes :
          eos' = EosOf("MM", a, NoCSEArgs, MetaModelInit(a, oob), NoCSE)
    /\ UNCHANGED <<fam, crust, pf>>

\* MetaModel_with_CSE_EOS_model(...) runs to its return or its error
EosNewCSE ==
    /\ eos.pc = "idle"
    /\ \E a \in CSEMetaModelArgs, c \in CSEArgs, oob \in OobOutcomes :
          eos' = EosOfCSE(a, c, CSEInit(a, c, oob))
    /\ UNCHANGED <<fam, crust, pf>>

\* the Interpolate_EOS_model attributes of the constructed object
EosIt == IF eos.kind = "CSE" THEN eos.x.it ELSE eos.mm.it

\* pressure_from_number_density(n) is called
EosPressureOfDensity ==
    /\ eos.pc = "built"
    /\ Len(EosIt.n) >= 2
    /\ \E n \in QueryDensities :
          eos' = [eos EXCEPT !.q = [kind |-> "p_of_n", x |-> <<n>>, cs2_min |-> Z(0), row |-> 0,
                                    out |-> <<pressure_from_number_density(EosIt, n)>>]]
    /\ UNCHANGED <<fam, crust, pf>>

\* the pseudo-enthalpy h1 found for a pressure, and the pressure found back for h1
RoundTrip(it, h1) == <<h1, pressure_from_pseudo_enthalpy(it, h1)>>

\* pressure_from_pseudo_enthalpy(pseudo_enthalpy_from_pressure(p_i)) is called
EosRoundTrip ==
    /\ eos.pc = "built"
    /\ Len(EosIt.n) >= 2
    /\ \E i \in 1..Len(EosIt.p) :
          eos' = [eos EXCEPT !.q = [kind |-> "roundtrip", x |-> <<EosIt.p[i]>>,
                                    cs2_min |-> Z(0), row |-> i,
                                    out |-> RoundTrip(EosIt, pseudo_enthalpy_from_pressure(EosIt, EosIt.p[i]))]]
    /\ UNCHANGED <<fam, crust, pf>>

\* cs2_from_number_density_nuclear_unit(n, cs2_min) is called
EosCs2 ==
    /\ eos.pc = "built"
    /\ \E n \in Cs2Queries, cs2_min \in Cs2Mins :
          eos' = [eos EXCEPT !.q =
                     [kind |-> "cs2", x |-> n, cs2_min |-> cs2_min, row |-> 0,
                      out |-> IF eos.kind = "CSE"
                              THEN CSE_cs2_from_number_density_nuclear_unit(eos.mm, eos.x, eos.cse, n, cs2_min)
                              ELSE cs2_from_number_density_nuclear_unit(eos.mm.m, n, cs2_min)]]
    /\ UNCHANGED <<fam, crust, pf>>

EosNext == EosNewMetaModel \/ EosNewCSE \/ EosPressureOfDensity \/ EosRoundTrip \/ EosCs2

SpecEOS == EosInit /\ [][EosNext]_vars

----------------------------------------------------------------------------
(* compute_proton_fraction (lines 242-286), one density at a time          *)

\* the functionals the symmetry energy is taken from
PfModels == {ModelOf(a) : a \in {b \in MetaModelArgs : b.nmin = Z(100) /\ b.ndat = 2}}

\* the densities the proton fraction is asked for
PfDensities == {Z(80), Z(160)}

\* the real and imaginary parts a root can have
RootReals == {V(-1, 2), Z(0), V(1, 2), Z(1), V(3, 2), NaN, PInf}

RootImags == {Z(0), V(1, 2), NaN}

\* line 268: hbarc * (3 pi^2 n) ** (1/3), irrational for every n > 0
ElectronTerm(n) ==
    IF n.k = "nan" THEN NaN
    ELSE IF n = Z(0) THEN Z(0)
    ELSE IF SignOf(n) = -1 THEN NaN
    ELSE Irr

\* lines 264-277: the row of coeffs at the density n
CubicCoeffs(m, n) ==
    [a |-> Mul(Z(8), esym(m, n)),
     b |-> Z(0),
     c |-> ElectronTerm(n),
     d |-> Sub(Mul(Z(-4), esym(m, n)), Z(m_n - m_p))]

\* utils.cubic_root_for_proton_fraction: the three roots of a row, in closed form.
\* The roots are not numbers the model computes: every triple of complex values
\* is a possible outcome.
cubic_root_for_proton_fraction(coeffs) == [1..3 -> [re : RootReals, im : RootImags]]

\* line 280 without the test of the imaginary part
PhysicalRootAnyImag(y) == Le(Z(0), y.re) /\ Le(y.re, Z(1))

\* line 280: (ys.imag == 0.0) * (ys.real >= 0.0) * (ys.real <= 1.0)
PhysicalRoot(y) == Eq(y.im, Z(0)) /\ Le(Z(0), y.re) /\ Le(y.re, Z(1))

\* lines 279-283: jnp.where(..., ys.real, 0).sum(axis=1) on one row
physical_ys(ys) ==
    Add(Add(IF PhysicalRoot(ys[1]) THEN ys[1].re ELSE Z(0),
            IF PhysicalRoot(ys[2]) THEN ys[2].re ELSE Z(0)),
        IF PhysicalRoot(ys[3]) THEN ys[3].re ELSE Z(0))

\* lines 278-286
ProtonFractionOf(ys) == Power(physical_ys(ys), 3)

\* lines 242-286
compute_proton_fraction(m, n, coeffs, ys) ==
    [pc |-> "done", n |-> n, Esym |-> esym(m, n), coeffs |-> coeffs, ys |-> ys,
     proton_fraction |-> ProtonFractionOf(ys)]

PfInit == fam = IdleFam /\ crust = IdleCrust /\ pf = IdlePf /\ eos = IdleEos

PfCompute ==
    /\ pf.pc = "idle"
    /\ \E m \in PfModels, n \in PfDensities :
          \E ys \in cubic_root_for_proton_fraction(CubicCoeffs(m, n)) :
              pf' = compute_proton_fraction(m, n, CubicCoeffs(m, n), ys)
    /\ UNCHANGED <<fam, crust, eos>>

PfNext == PfCompute

SpecPF == PfInit /\ [][PfNext]_vars

\* the roots of pf.ys with zero imaginary part and real part in [0, 1]
PfQualifying ==
    {i \in 1..3 : /\ pf.ys[i].im = Z(0)
                  /\ pf.ys[i].re.k = "val"
                  /\ pf.ys[i].re.n >= 0
                  /\ pf.ys[i].re.n <= pf.ys[i].re.d}

\* C4: when no root has zero imaginary part and real part in [0, 1] the proton
\* fraction is exactly 0; when exactly one has, it is the cube of that root's real
\* part; and replacing a root that does not qualify by any other that does not
\* leaves the result unchanged.
C4_RootSelection ==
    pf.pc = "done" =>
        /\ PfQualifying = {} => pf.proton_fraction = Z(0)
        /\ \A i \in 1..3 :
              PfQualifying = {i} => pf.proton_fraction = Power(pf.ys[i].re, 3)
        /\ \A i \in (1..3) \ PfQualifying :
              \A re \in RootReals, im \in RootImags \ {Z(0)} :
                  ProtonFractionOf([pf.ys EXCEPT ![i] = [re |-> re, im |-> im]])
                      = pf.proton_fraction

\* one root qualifies, next to a complex root whose real part lies in [0, 1] and a
\* real root above 1
C4_Witness ==
    /\ pf.pc = "done"
    /\ pf.ys = <<[re |-> V(1, 2), im |-> V(1, 2)], [re |-> V(1, 2), im |-> Z(0)],
                 [re |-> V(3, 2), im |-> Z(0)]>>
    /\ pf.proton_fraction = V(1, 8)

----------------------------------------------------------------------------
(* Properties of the constructed EOS                                       *)

\* b is known not to lie above a: one of them is NaN, or b <= a
NotAbove(a, b) == a.k = "nan" \/ b.k = "nan" \/ Le(b, a)

\* a and b are the same number as far as the model can tell
Same(a, b) == a.k # "nan" /\ b.k # "nan" /\ (a.k = "irr" \/ b.k = "irr" \/ a = b)

\* no two consecutive rows of a table are known to have equal or decreasing n, p,
\* e or h
StrictlyIncreasing(rows, h) ==
    \A i \in 1..(Len(rows) - 1) :
        /\ ~NotAbove(rows[i].n, rows[i + 1].n)
        /\ ~NotAbove(rows[i].p, rows[i + 1].p)
        /\ ~NotAbove(rows[i].e, rows[i + 1].e)
        /\ ~NotAbove(h[i], h[i + 1])

\* C1: every table handed to Interpolate_EOS_model, by MetaModel_EOS_model or by
\* MetaModel_with_CSE_EOS_model, is strictly increasing in n, p, e and h, the rows
\* at the joins and at the seam included.
C1_TablesStrictlyIncreasing ==
    /\ (eos.pc # "idle" /\ eos.mm.ok) => StrictlyIncreasing(eos.mm.tab, eos.mm.it.h)
    /\ (eos.pc # "idle" /\ eos.x.ok) => StrictlyIncreasing(eos.x.tab, eos.x.it.h)

\* v lies in [lo, 1]
InRange(v, lo) == v.k # "nan" /\ ~Lt(v, lo) /\ ~Lt(Z(1), v)

\* C5: every cs2 value lies in [cs2_min, 1]: the table the constructor stores
\* (cs2_min at its default) and every array either accessor returns.
C5_Cs2InRange ==
    /\ (eos.pc # "idle" /\ eos.mm.ok) =>
          \A i \in 1..Len(eos.mm.cs2) : InRange(eos.mm.cs2[i], V(1, 1000))
    /\ (eos.pc = "built" /\ eos.q.kind = "cs2") =>
          \A i \in 1..Len(eos.q.out) : InRange(eos.q.out[i], eos.q.cs2_min)

\* C7: a MetaModel_with_CSE_EOS_model given ngrids and cs2grids of different
\* lengths fails at construction: no break point, no extension rows, no table and
\* no interpolated EOS come of it.
C7_MismatchFails ==
    (eos.pc # "idle" /\ eos.kind = "CSE" /\ Len(eos.cse.ngrids) # Len(eos.cse.cs2grids)) =>
        /\ eos.pc = "failed"
        /\ ~eos.x.ok
        /\ eos.x.err # "none"
        /\ ~eos.x.brk.set
        /\ eos.x.ext = <<>>
        /\ eos.x.tab = <<>>
        /\ eos.x.it = NoInterpolate

\* the metamodel was built and the assert of line 382 stopped the construction
C7_Witness ==
    /\ eos.pc = "failed"
    /\ eos.kind = "CSE"
    /\ Len(eos.cse.ngrids) = 2
    /\ Len(eos.cse.cs2grids) = 1
    /\ eos.mm.ok
    /\ eos.x.err = "AssertionError"

\* C8: pressure_from_number_density(n) is the log-log interpolant: exp of the
\* interpolation of log n against the table's log n and log p.
C8_PressureLogLog ==
    (eos.pc = "built" /\ eos.q.kind = "p_of_n") =>
        Same(eos.q.out[1], Exp(Interp(Log(eos.q.x[1]), EosIt.logn, EosIt.logp)))

\* C9: for every row i, pseudo_enthalpy_from_pressure(p_i) is h_i and
\* pressure_from_pseudo_enthalpy of that is p_i.
C9_RoundTrip ==
    (eos.pc = "built" /\ eos.q.kind = "roundtrip") =>
        /\ Same(eos.q.out[1], EosIt.h[eos.q.row])
        /\ Same(eos.q.out[2], EosIt.p[eos.q.row])

\* C10: MetaModel_EOS_model with use_empty_crust succeeds, loads no crust, and its
\* table is the meta-model grid from the caller's nmin to nmax with no row removed.
C10_EmptyCrustTable ==
    (eos.pc # "idle" /\ eos.kind = "MM" /\ eos.args.use_empty_crust) =>
        /\ eos.pc = "built"
        /\ ~eos.mm.loaded
        /\ Len(eos.mm.tab) = eos.args.ndat
        /\ eos.mm.tab = eos.mm.grid
        /\ eos.mm.tab[1].n = eos.args.nmin
        /\ eos.mm.tab[Len(eos.mm.tab)].n = eos.args.nmax

----------------------------------------------------------------------------
(* The table MetaModel_EOS_model assembles, over a wider set of arguments  *)

\* a density grid that descends: nmax lies below nmin and below the crust
DescendingArgs ==
    [coefficient_sat |-> <<Z(2000)>>, coefficient_sym |-> <<Z(32), Z(480)>>, nsat |-> Z(160),
     nmin |-> Z(100), nmax |-> Z(40), ndat |-> 2, fix_proton_fraction_val |-> Z(0),
     crust |-> <<"BPS">>, max_n_crust |-> Z(80), use_empty_crust |-> FALSE,
     use_spline |-> FALSE, ndat_spline |-> 2]

TableArgs == MetaModelArgs \cup {DescendingArgs}

TabInit == fam = IdleFam /\ crust = IdleCrust /\ pf = IdlePf /\ eos = IdleEos

\* MetaModel_EOS_model(...) runs to its return or its error
TabNewMetaModel ==
    /\ eos.pc = "idle"
    /\ \E a \in TableArgs, oob \in OobOutcomes :
          eos' = EosOf("MM", a, NoCSEArgs, MetaModelInit(a, oob), NoCSE)
    /\ UNCHANGED <<fam, crust, pf>>

TabNext == TabNewMetaModel

SpecTable == TabInit /\ [][TabNext]_vars

\* the rows of the table after the crust rows
TabKept == SubSeq(eos.mm.tab, Len(eos.mm.crust) + 1, Len(eos.mm.tab))

\* the rows of the crust file with n <= max_n_crust, in the file's order
TabCrustOfFile ==
    SelectSeq(CrustData(load_crust(eos.args.crust, EosCatalog, {}).table),
              LAMBDA r : r.n.k = "val" /\ r.n.n * eos.args.max_n_crust.d
                                           <= eos.args.max_n_crust.n * r.n.d)

\* the row r has p and e strictly above the last crust row's
TabAbove(r) ==
    /\ Len(eos.mm.crust) > 0
    /\ Lt(eos.mm.crust[Len(eos.mm.crust)].p, r.p)
    /\ Lt(eos.mm.crust[Len(eos.mm.crust)].e, r.e)

\* a table was assembled without spline from a loaded crust
TabBuilt ==
    /\ eos.pc = "built"
    /\ eos.kind = "MM"
    /\ ~eos.args.use_spline
    /\ ~eos.args.use_empty_crust

\* the crust rows are the prefix, and the rest are exactly the grid rows with p and
\* e above the last crust row's, in the grid's order
TabPrefixAndMask ==
    /\ eos.mm.crust = TabCrustOfFile
    /\ SubSeq(eos.mm.tab, 1, Len(eos.mm.crust)) = eos.mm.crust
    /\ TabKept = SelectSeq(eos.mm.grid, TabAbove)
    /\ \A i \in 1..Len(TabKept) : TabAbove(TabKept[i])

----------------------------------------------------------------------------
(* compute_proton_fraction on cubics whose roots are known exactly         *)

\* complex numbers are records [re, im]
CAdd(x, y) == [re |-> Add(x.re, y.re), im |-> Add(x.im, y.im)]

CMul(x, y) ==
    [re |-> Sub(Mul(x.re, y.re), Mul(x.im, y.im)),
     im |-> Add(Mul(x.re, y.im), Mul(x.im, y.re))]

CNeg(x) == [re |-> Sub(Z(0), x.re), im |-> Sub(Z(0), x.im)]

CReal(r) == [re |-> r, im |-> Z(0)]

\* lines 266-269: the row (a, b, c, d) for a symmetry energy Esym and an electron
\* term c = hbarc * (3 pi^2 n) ** (1/3); every c > 0 is the term of one density n
CubicRow(Esym, c) ==
    [a |-> Mul(Z(8), Esym), b |-> Z(0), c |-> c,
     d |-> Sub(Mul(Z(-4), Esym), Z(m_n - m_p))]

\* the real roots the cubics of the model are built around
BetaReals == {V(k, 4) : k \in 1..6}

\* Esym < 0 and c > 0 for which a y^3 + c y + d has the real roots r1, r2 and
\* -(r1 + r2): Esym = -(m_n - m_p) / (4 + 8 r1 r2 (r1 + r2)),
\* c = -8 Esym ((r1 + r2)^2 - r1 r2)
BetaOfReals(r1, r2) ==
    [Esym |-> Div(Z(-(m_n - m_p)), Add(Z(4), Mul(Z(8), Mul(Mul(r1, r2), Add(r1, r2))))),
     c |-> Mul(Mul(Z(8), Div(Z(m_n - m_p),
                             Add(Z(4), Mul(Z(8), Mul(Mul(r1, r2), Add(r1, r2)))))),
               Sub(Mul(Add(r1, r2), Add(r1, r2)), Mul(r1, r2)))]

\* Esym > 0 and c > 0 for which the cubic has the real root r and the complex pair
\* -r/2 +- i: Esym = (m_n - m_p) / (8 r (r^2/4 + 1) - 4), c = 8 Esym (1 - 3 r^2 / 4)
BetaOfComplex(r) ==
    [Esym |-> Div(Z(m_n - m_p),
                  Sub(Mul(Z(8), Mul(r, Add(Div(Mul(r, r), Z(4)), Z(1)))), Z(4))),
     c |-> Mul(Mul(Z(8), Div(Z(m_n - m_p),
                             Sub(Mul(Z(8), Mul(r, Add(Div(Mul(r, r), Z(4)), Z(1)))), Z(4)))),
               Sub(Z(1), Div(Mul(Z(3), Mul(r, r)), Z(4))))]

\* the (Esym, c) pairs compute_proton_fraction meets
BetaInputs ==
    {BetaOfReals(r1, r2) : r1, r2 \in BetaReals} \cup {BetaOfComplex(r) : r \in {V(1, 2), Z(1)}}

\* the complex values the first two roots are looked for among
BetaGrid == [re : {V(k, 4) : k \in -12..6}, im : {Z(-1), Z(0), Z(1)}]

\* the third root, from the sum of the roots being -b/a
ThirdRoot(coeffs, y1, y2) == CNeg(CAdd(CAdd(y1, y2), CReal(Div(coeffs.b, coeffs.a))))

\* y1, y2, y3 are the three roots of the row: y1 y2 + y1 y3 + y2 y3 = c/a and
\* y1 y2 y3 = -d/a
AreRoots(coeffs, y1, y2, y3) ==
    /\ CAdd(CAdd(CMul(y1, y2), CMul(y1, y3)), CMul(y2, y3)) = CReal(Div(coeffs.c, coeffs.a))
    /\ CMul(CMul(y1, y2), y3) = CReal(Sub(Z(0), Div(coeffs.d, coeffs.a)))

\* utils.cubic_root_for_proton_fraction on a row with a # 0 whose roots the model
\* represents: the three roots, in any order
exact_cubic_root_for_proton_fraction(coeffs) ==
    {<<pr[1], pr[2], ThirdRoot(coeffs, pr[1], pr[2])>> :
        pr \in {q \in BetaGrid \X BetaGrid :
                    AreRoots(coeffs, q[1], q[2], ThirdRoot(coeffs, q[1], q[2]))}}

\* lines 264-286 for the row of (Esym, c)
BetaResult(input, coeffs, ys) ==
    [pc |-> "done", Esym |-> input.Esym, coeffs |-> coeffs, ys |-> ys,
     proton_fraction |-> ProtonFractionOf(ys)]

BetaInit == fam = IdleFam /\ crust = IdleCrust /\ pf = IdlePf /\ eos = IdleEos

BetaCompute ==
    /\ pf.pc = "idle"
    /\ \E input \in BetaInputs :
          \E ys \in exact_cubic_root_for_proton_fraction(CubicRow(input.Esym, input.c)) :
              pf' = BetaResult(input, CubicRow(input.Esym, input.c), ys)
    /\ UNCHANGED <<fam, crust, eos>>

BetaNext == BetaCompute

SpecBeta == BetaInit /\ [][BetaNext]_vars

\* C12: the proton fraction compute_proton_fraction returns lies in [0, 1], for
\* positive and for negative symmetry energy, also where more than one root of the
\* cubic is real with real part in [0, 1].
C12_ProtonFractionInUnitInterval ==
    pf.pc = "done" =>
        /\ pf.proton_fraction.k = "val"
        /\ pf.proton_fraction.n >= 0
        /\ pf.proton_fraction.n <= pf.proton_fraction.d

====
